---- MODULE Spec2Model ----
(***************************************************************************)
(* A model of the lane detection core of SafeTownSeniorRobot (detect.py):  *)
(*   - get_lane_marker_mask and its helper apply_tolerance,                *)
(*   - find_center_points,                                                 *)
(* of laneDetect.getLaneMask and of the capture loop of calibrate.main.    *)
(* Images are functions img[y][x] over 0-based rows y and columns x, a     *)
(* pixel is a triple <<c0, c1, c2>>; a contour is a sequence of points     *)
(* <<x, y>> (numpy's [[x, y]] rows).                                       *)
(***************************************************************************)
EXTENDS Integers, Sequences, FiniteSets, TLC

VARIABLES
    pc,                \* position of the running function
    \* ---- apply_tolerance(val, tolerance, max_val)
    val, tolerance, max_val, tol_result,
    \* ---- get_lane_marker_mask(frame, color_calibration)
    frame, color_calibration,
    hsv, right_side_hsv, left_side_hsv,
    mask_outside, mask_inside,
    \* ---- find_center_points(outside_contours, inside_contours, dot_num, frame)
    outside_contours, inside_contours, dot_num,
    outside_line, inside_list, points,
    mid_centroid_y, sub_c, processed, moments_calls, iter,
    \* ---- laneDetect.getLaneMask(marker_mask, head_size)
    marker_mask, result, row_num, col_num,
    inRightBoundary, inbetweenBoundaries, writtenPixels,
    \* ---- calibrate.main: the settings in memory and on file, the mouse
    \* callback's flag, the capture loop's locals, what was printed, and
    \* counts of the window events delivered so far
    color_settings, calibrating_center, settings_file, ret, loop_i,
    picked_color, printed, mouse_events, clicks, trackbar_moves

vars == <<pc, val, tolerance, max_val, tol_result, frame, color_calibration,
          hsv, right_side_hsv, left_side_hsv, mask_outside, mask_inside,
          outside_contours, inside_contours, dot_num, outside_line,
          inside_list, points, mid_centroid_y, sub_c, processed,
          moments_calls, iter,
          marker_mask, result, row_num, col_num, inRightBoundary,
          inbetweenBoundaries, writtenPixels,
          color_settings, calibrating_center, settings_file, ret, loop_i,
          picked_color, printed, mouse_events, clicks, trackbar_moves>>

tolVars == <<val, tolerance, max_val, tol_result>>
maskVars == <<color_calibration, hsv, right_side_hsv, left_side_hsv,
              mask_outside, mask_inside>>
centerVars == <<outside_contours, inside_contours, dot_num, outside_line,
                inside_list, points, mid_centroid_y, sub_c, processed,
                moments_calls, iter>>
laneVars == <<marker_mask, result, row_num, col_num, inRightBoundary,
              inbetweenBoundaries, writtenPixels>>
calibVars == <<color_settings, calibrating_center, settings_file, ret,
               loop_i, picked_color, printed, mouse_events, clicks,
               trackbar_moves>>

\* The value of a variable the running function has not assigned yet.
None == <<>>

\* getLaneMask and calibrate.main not running.
LaneIdle ==
    /\ marker_mask = None /\ result = None
    /\ row_num = 0 /\ col_num = 0
    /\ inRightBoundary = FALSE /\ inbetweenBoundaries = FALSE
    /\ writtenPixels = 0
CalibIdle ==
    /\ color_settings = None /\ settings_file = None
    /\ calibrating_center = TRUE /\ ret = None /\ loop_i = 0
    /\ picked_color = None /\ printed = {}
    /\ mouse_events = 0 /\ clicks = 0 /\ trackbar_moves = 0

(***************************************************************************)
(* Bounds of the model.                                                    *)
(***************************************************************************)
MaxRows == 2
MaxCols == 4
MaxPixels == 4
MaxOutside == 2
MaxInside == 3
MaxDotNum == 3
CenterRows == 4
CenterCols == 4
\* getLaneMask: the shape of the marker mask.
LaneRows == 2
LaneCols == 4
\* calibrate.main: the mouse events and trackbar moves delivered, and the
\* frames shown, before the Enter key.
MaxMouseEvents == 3
MaxTrackbarMoves == 1
MaxFrames == 2

(***************************************************************************)
(* Program constants.                                                      *)
(***************************************************************************)
HueMax == 360
SatValMax == 255
HueTrackbarMax == 360
SatValTrackbarMax == 255
LEN_CENTROID_SLICE == 10
\* cv2's mouse event codes, the Enter key of line 158 and cv2.waitKey's
\* result when no key was pressed.
EVENT_MOUSEMOVE == 0
EVENT_LBUTTONDOWN == 1
EVENT_LBUTTONUP == 4
ENTER_KEY == 13
NO_KEY == -1

Min2(a, b) == IF a < b THEN a ELSE b
Max2(a, b) == IF a > b THEN a ELSE b
Abs(a) == IF a < 0 THEN -a ELSE a

(***************************************************************************)
(* apply_tolerance: the pair (lower, upper) of one channel.                *)
(***************************************************************************)
apply_tolerance_nolower(v, t, m) ==
    << 0, IF v + t > m THEN m ELSE v + t >>

apply_tolerance_noclamp(v, t, m) ==
    << v - t, v + t >>

apply_tolerance(v, t, m) ==
    << IF v - t < 0 THEN 0 ELSE v - t,
       IF v + t > m THEN m ELSE v + t >>

to_thruple(x, y, z) == << <<x[1], y[1], z[1]>>, <<x[2], y[2], z[2]>> >>

\* The channel maximum passed at the three call sites: 360, 255, 255.
ChannelMax(ch) == IF ch = 1 THEN HueMax ELSE SatValMax

\* The largest tolerance the calibration trackbars can set for a channel.
TrackbarMax(ch) == IF ch = 1 THEN HueTrackbarMax ELSE SatValTrackbarMax

\* (lower, upper) of a calibrated line: a record [hsv, tolerance].
LineRange(line) ==
    to_thruple(apply_tolerance(line.hsv[1], line.tolerance[1], ChannelMax(1)),
               apply_tolerance(line.hsv[2], line.tolerance[2], ChannelMax(2)),
               apply_tolerance(line.hsv[3], line.tolerance[3], ChannelMax(3)))

(***************************************************************************)
(* Images.                                                                 *)
(***************************************************************************)
Rows(img) == Cardinality(DOMAIN img)
Cols(img) == Cardinality(DOMAIN img[0])

\* frame.shape[0] x frame.shape[1] images whose pixels come from palette.
Images(r, c, palette) == [0..(r - 1) -> [0..(c - 1) -> palette]]

\* cv2.cvtColor(_, COLOR_BGR2HSV) of one 8-bit pixel <<b, g, r>>: OpenCV's
\* fixed-point conversion, hue in 0..179 (degrees halved).
SDivTable(v) == IF v = 0 THEN 0 ELSE (2 * (255 * 4096) + v) \div (2 * v)
HDivTable180(d) == IF d = 0 THEN 0 ELSE (2 * (180 * 4096) + 6 * d) \div (12 * d)

BGR2HSV(px) ==
    LET b == px[1]
        g == px[2]
        r == px[3]
        v == Max2(b, Max2(g, r))
        vmin == Min2(b, Min2(g, r))
        diff == v - vmin
        s == (diff * SDivTable(v) + 2048) \div 4096
        h0 == IF v = r THEN g - b
              ELSE IF v = g THEN b - r + 2 * diff
              ELSE r - g + 4 * diff
        h1 == (h0 * HDivTable180(diff) + 2048) \div 4096
        h == IF h1 < 0 THEN h1 + 180 ELSE h1
    IN  <<h, s, v>>

cvtColor(img) == [y \in DOMAIN img |-> [x \in DOMAIN img[y] |-> BGR2HSV(img[y][x])]]

\* cv2.rectangle(img.copy(), pt1, pt2, color, -1): the filled rectangle with
\* both corners included, clipped to the image.
rectangle(img, pt1, pt2, color) ==
    [y \in DOMAIN img |-> [x \in DOMAIN img[y] |->
        IF /\ Min2(pt1[1], pt2[1]) <= x /\ x <= Max2(pt1[1], pt2[1])
           /\ Min2(pt1[2], pt2[2]) <= y /\ y <= Max2(pt1[2], pt2[2])
        THEN color ELSE img[y][x]]]

\* Whether a pixel lies in the inclusive range in all three channels.
InRangePx(px, lower, upper) ==
    \A ch \in 1..3 : lower[ch] <= px[ch] /\ px[ch] <= upper[ch]

\* cv2.inRange(img, lower, upper): 255 where the pixel is in range, else 0.
inRange(img, lower, upper) ==
    [y \in DOMAIN img |-> [x \in DOMAIN img[y] |->
        IF InRangePx(img[y][x], lower, upper) THEN 255 ELSE 0]]

(***************************************************************************)
(* Inputs of get_lane_marker_mask.                                         *)
(***************************************************************************)
BlackBGR == <<0, 0, 0>>
WhiteBGR == <<255, 255, 255>>
YellowBGR == <<170, 255, 255>>
PaletteBGR == {BlackBGR, WhiteBGR, YellowBGR}

\* WHITE_TAPE_HSV, YELLOW_TAPE_HSV and a dark tape colour.
WHITE_TAPE_HSV == <<0, 0, 255>>
YELLOW_TAPE_HSV == <<30, 85, 255>>
DarkTapeHSV == <<0, 0, 10>>
CalibratedColours == {WHITE_TAPE_HSV, YELLOW_TAPE_HSV, DarkTapeHSV}
Tolerances == {<<0, 0, 0>>, <<10, 10, 10>>,
               <<HueTrackbarMax, SatValTrackbarMax, SatValTrackbarMax>>}

CalibratedLines == [hsv : CalibratedColours, tolerance : Tolerances]
Calibrations == [outside_line : CalibratedLines, center_line : CalibratedLines]

FrameShapes == {s \in (1..MaxRows) \X (1..MaxCols) : s[1] * s[2] <= MaxPixels}
Frames == UNION {Images(s[1], s[2], PaletteBGR) : s \in FrameShapes}

(***************************************************************************)
(* apply_tolerance on its own: every channel, every colour value within    *)
(* the channel's bounds, every tolerance a trackbar can set.               *)
(***************************************************************************)
InitTol ==
    /\ pc = "tol_call"
    /\ LaneIdle /\ CalibIdle
    /\ \E ch \in 1..3 :
        /\ max_val = ChannelMax(ch)
        /\ val \in 0..ChannelMax(ch)
        /\ tolerance \in 0..TrackbarMax(ch)
    /\ tol_result = None
    /\ frame = None
    /\ color_calibration = None /\ hsv = None
    /\ right_side_hsv = None /\ left_side_hsv = None
    /\ mask_outside = None /\ mask_inside = None
    /\ outside_contours = None /\ inside_contours = None /\ dot_num = 0
    /\ outside_line = None /\ inside_list = None /\ points = None
    /\ mid_centroid_y = 0 /\ sub_c = None /\ processed = None
    /\ moments_calls = 0 /\ iter = 0

ApplyTolerance ==
    /\ pc = "tol_call"
    /\ tol_result' = apply_tolerance(val, tolerance, max_val)
    /\ pc' = "tol_done"
    /\ UNCHANGED <<val, tolerance, max_val, frame, maskVars, centerVars,
                   laneVars, calibVars>>

NextTol == ApplyTolerance

SpecTol == InitTol /\ [][NextTol]_vars

(***************************************************************************)
(* get_lane_marker_mask.                                                   *)
(***************************************************************************)
InitMask ==
    /\ pc = "mask_call"
    /\ LaneIdle /\ CalibIdle
    /\ frame \in Frames
    /\ color_calibration \in Calibrations
    /\ hsv = None
    /\ right_side_hsv = None /\ left_side_hsv = None
    /\ mask_outside = None /\ mask_inside = None
    /\ val = 0 /\ tolerance = 0 /\ max_val = 0 /\ tol_result = None
    /\ outside_contours = None /\ inside_contours = None /\ dot_num = 0
    /\ outside_line = None /\ inside_list = None /\ points = None
    /\ mid_centroid_y = 0 /\ sub_c = None /\ processed = None
    /\ moments_calls = 0 /\ iter = 0

\* Lines 63-81: the HSV conversion and the two half-blanked copies.
SplitHalves ==
    /\ pc = "mask_call"
    /\ hsv' = cvtColor(frame)
    /\ right_side_hsv' =
          rectangle(cvtColor(frame), <<0, 0>>,
                    <<Cols(frame) \div 2, Rows(frame)>>, <<0, 0, 0>>)
    /\ left_side_hsv' =
          rectangle(cvtColor(frame), <<Cols(frame) \div 2, 0>>,
                    <<Cols(frame), Rows(frame)>>, <<0, 0, 0>>)
    /\ pc' = "mask_outside"
    /\ UNCHANGED <<frame, color_calibration, mask_outside, mask_inside,
                   tolVars, centerVars,
                   laneVars, calibVars>>

\* Lines 92-99: thresholding for the outside tape.
ThresholdOutside ==
    /\ pc = "mask_outside"
    /\ LET range == LineRange(color_calibration.outside_line)
       IN  mask_outside' = inRange(right_side_hsv, range[1], range[2])
    /\ pc' = "mask_inside"
    /\ UNCHANGED <<frame, color_calibration, hsv, right_side_hsv,
                   left_side_hsv, mask_inside, tolVars, centerVars,
                   laneVars, calibVars>>

\* Lines 101-110: thresholding for the inside tape, and the return.
ThresholdInside ==
    /\ pc = "mask_inside"
    /\ LET range == LineRange(color_calibration.center_line)
       IN  mask_inside' = inRange(left_side_hsv, range[1], range[2])
    /\ pc' = "mask_done"
    /\ UNCHANGED <<frame, color_calibration, hsv, right_side_hsv,
                   left_side_hsv, mask_outside, tolVars, centerVars,
                   laneVars, calibVars>>

NextMask == SplitHalves \/ ThresholdOutside \/ ThresholdInside

SpecMask == InitMask /\ [][NextMask]_vars

(***************************************************************************)
(* Claims about apply_tolerance and get_lane_marker_mask.                  *)
(***************************************************************************)
AllPixels(img) == {<<x, y>> : x \in DOMAIN img[0], y \in DOMAIN img}
AllZero(mask) == \A p \in AllPixels(mask) : mask[p[2]][p[1]] = 0
AllSet(mask) == \A p \in AllPixels(mask) : mask[p[2]][p[1]] = 255
AllBlack(img) == \A p \in AllPixels(img) : img[p[2]][p[1]] = <<0, 0, 0>>
\* Some channel's colour lies above its tolerance, so its lower bound is > 0.
ExcludesBlack(line) == \E ch \in 1..3 : line.hsv[ch] > line.tolerance[ch]

\* C1: for a colour value within its channel's bounds and a non-negative
\* tolerance, apply_tolerance returns (lower, upper) with
\* 0 <= lower <= val <= upper <= max_val, clamped at 0 and at max_val:
\* lower is max(0, val - tolerance) and upper is min(max_val, val + tolerance).
C1_ToleranceRangeClamped ==
    pc = "tol_done" =>
        /\ 0 <= tol_result[1]
        /\ tol_result[1] <= val
        /\ val <= tol_result[2]
        /\ tol_result[2] <= max_val
        /\ tol_result[1] = Max2(0, val - tolerance)
        /\ tol_result[2] = Min2(max_val, val + tolerance)

\* C1's case: a tolerance that reaches past both ends of the channel.
C1_Witness ==
    /\ pc = "tol_done"
    /\ 0 < val /\ val < max_val
    /\ val - tolerance < 0 /\ val + tolerance > max_val
    /\ tol_result = <<0, max_val>>

\* C2 as claimed: the blanked half never matches, that is the outside mask is
\* 0 in the columns [0, W//2) and the center mask is 0 in the columns
\* [W//2, W), for every calibration.
C2_BlankedHalfNeverMatches ==
    pc = "mask_done" =>
        \A p \in AllPixels(frame) :
            /\ p[1] < Cols(frame) \div 2 => mask_outside[p[2]][p[1]] = 0
            /\ p[1] >= Cols(frame) \div 2 => mask_inside[p[2]][p[1]] = 0

\* C3 as claimed: the outside mask in the columns [W//2, W) and the center
\* mask in the columns [0, W//2) are 255 exactly where the frame's HSV pixel
\* lies in the line's range, and no column is blanked for both lines.
C3_HalvesSearchedExactly ==
    pc = "mask_done" =>
        LET outside == LineRange(color_calibration.outside_line)
            center == LineRange(color_calibration.center_line)
            half == Cols(frame) \div 2
        IN  /\ \A p \in AllPixels(frame) :
                /\ p[1] >= half =>
                     mask_outside[p[2]][p[1]] =
                        IF InRangePx(hsv[p[2]][p[1]], outside[1], outside[2])
                        THEN 255 ELSE 0
                /\ p[1] < half =>
                     mask_inside[p[2]][p[1]] =
                        IF InRangePx(hsv[p[2]][p[1]], center[1], center[2])
                        THEN 255 ELSE 0
            /\ \A x \in DOMAIN frame[0] :
                \/ \A y \in DOMAIN frame : right_side_hsv[y][x] = hsv[y][x]
                \/ \A y \in DOMAIN frame : left_side_hsv[y][x] = hsv[y][x]

TruncDiv(a, b) ==
    LET q == Abs(a) \div Abs(b)
    IN  IF (a < 0) = (b < 0) THEN q ELSE -q

\* The point before c[i] on the closed polygon.
PrevPoint(c, i) == IF i = 1 THEN c[Len(c)] ELSE c[i - 1]
Cross(c, i) == PrevPoint(c, i)[1] * c[i][2] - c[i][1] * PrevPoint(c, i)[2]

\* The sum of terms[lo..hi], by halves.
RECURSIVE SumTerms(_, _, _)
SumTerms(terms, lo, hi) ==
    IF lo > hi THEN 0
    ELSE IF lo = hi THEN terms[lo]
    ELSE LET mid == (lo + hi) \div 2
         IN  SumTerms(terms, lo, mid) + SumTerms(terms, mid + 1, hi)

\* Green's formula sums of cv2.moments / cv2.contourArea over the points of
\* c: a00 is twice the signed area, a10 and a01 are six times the signed
\* first moments.
A00(c) == SumTerms([i \in DOMAIN c |-> Cross(c, i)], 1, Len(c))
A10(c) ==
    SumTerms([i \in DOMAIN c |-> Cross(c, i) * (PrevPoint(c, i)[1] + c[i][1])],
             1, Len(c))
A01(c) ==
    SumTerms([i \in DOMAIN c |-> Cross(c, i) * (PrevPoint(c, i)[2] + c[i][2])],
             1, Len(c))

\* cv2.contourArea(c), doubled to stay in the integers: |a00|.
contourArea(c) == Abs(A00(c))

\* cv2.moments(c): m00 = |a00| / 2, m10 = +-a10 / 6, m01 = +-a01 / 6 with the
\* sign of a00; kept as the integer sums.
moments(c) == [a00 |-> A00(c), a10 |-> A10(c), a01 |-> A01(c)]

\* A centroid with no zero fallback: the contour's first point when m00 = 0.
CentroidX_firstpoint(c) ==
    LET m == moments(c)
    IN  IF m.a00 # 0 THEN TruncDiv(m.a10, 3 * m.a00) ELSE c[1][1]

\* int(m10 / m00) and int(m01 / m00) when m00 != 0, else 0.
CentroidX(c) ==
    LET m == moments(c)
    IN  IF m.a00 # 0 THEN TruncDiv(m.a10, 3 * m.a00) ELSE 0
CentroidY(c) ==
    LET m == moments(c)
    IN  IF m.a00 # 0 THEN TruncDiv(m.a01, 3 * m.a00) ELSE 0

\* max(contours, key=cv2.contourArea): the first contour of maximal area.
MaxByArea(contours) ==
    LET i == CHOOSE k \in DOMAIN contours :
                /\ \A j \in DOMAIN contours :
                       contourArea(contours[j]) <= contourArea(contours[k])
                /\ \A j \in 1..(k - 1) :
                       contourArea(contours[j]) < contourArea(contours[k])
    IN  contours[i]

\* list.sort(key=...): the stable ascending sort of seq by keys[i], the key
\* of seq[i]; bucket by bucket, each bucket in the sequence's order.
RECURSIVE SortBuckets(_, _, _)
SortBuckets(seq, keys, left) ==
    IF left = {} THEN <<>>
    ELSE LET k == CHOOSE m \in left : \A n \in left : m <= n
             bucket == SelectSeq([i \in DOMAIN seq |-> i],
                                 LAMBDA i : keys[i] = k)
         IN  [n \in DOMAIN bucket |-> seq[bucket[n]]]
                \o SortBuckets(seq, keys, left \ {k})
StableSort(seq, keys) == SortBuckets(seq, keys, {keys[i] : i \in DOMAIN seq})

\* inside_contours.sort(key=cv2.contourArea)
SortByArea(contours) ==
    StableSort(contours, [i \in DOMAIN contours |-> contourArea(contours[i])])

\* A key that is the distance of the point's row from rule.
get_distance_row(point, rule) == Abs(point[2] - rule)

\* get_distance(val, rule): val is a contour point [[x, y]], val[0][0] its x.
get_distance(point, rule) == point[1] - rule

\* outside_line.sort(key=functools.partial(get_distance, rule=rule))
SortByDistance(line, rule) ==
    StableSort(line, [i \in DOMAIN line |-> get_distance(line[i], rule)])

\* outside_line[0:LEN_CENTROID_SLICE]
CentroidSlice(line) == SubSeq(line, 1, Min2(Len(line), LEN_CENTROID_SLICE))

\* inside_contours.pop(): the last element and the list without it.
PopFirst(list) == [contour |-> Head(list), rest |-> Tail(list)]
Pop(list) == [contour |-> list[Len(list)],
              rest |-> SubSeq(list, 1, Len(list) - 1)]

\* The test of line 117.
NotEnoughContours_both(outside, inside) == Len(outside) = 0 /\ Len(inside) = 0
NotEnoughContours(outside, inside) == Len(outside) = 0 \/ Len(inside) = 0

\* for _ in range(dot_num) with the break of lines 132-133: whether iteration
\* number i (from 0) runs.
LoopContinues_offbyone(i, n, list) == i <= n /\ Len(list) # 0
LoopContinues(i, n, list) == i < n /\ Len(list) # 0

(***************************************************************************)
(* Drawing: cv2.drawContours(frame, <array of the line's points>, 0,       *)
(* (255, 0, 0), 3) takes the array's rows as contours of one point each    *)
(* and draws contour 0, the line's first point, with a pen of thickness 3. *)
(* The pen's footprint is OpenCV's; it is one of the shapes below.         *)
(***************************************************************************)
BlueBGR == <<255, 0, 0>>
PenBlock == {<<dx, dy>> : dx \in -1..1, dy \in -1..1}
PenPlus == {o \in PenBlock : o[1] = 0 \/ o[2] = 0}
PenDiamond == {o \in (-2..2) \X (-2..2) : Abs(o[1]) + Abs(o[2]) <= 2}
PenShapes == {PenBlock, PenPlus, PenDiamond}

drawContours_all(img, line, color, pen) ==
    [y \in DOMAIN img |-> [x \in DOMAIN img[y] |->
        IF \E i \in DOMAIN line : <<x - line[i][1], y - line[i][2]>> \in pen
        THEN color ELSE img[y][x]]]

drawContours(img, line, color, pen) ==
    [y \in DOMAIN img |-> [x \in DOMAIN img[y] |->
        IF <<x - line[1][1], y - line[1][2]>> \in pen
        THEN color ELSE img[y][x]]]

(***************************************************************************)
(* Inputs of find_center_points.                                           *)
(***************************************************************************)
\* A vertical line of points at x = 100 for y = 0..99.
VLine100 == [i \in 1..100 |-> <<100, i - 1>>]
\* The boundary of a strip of tape, every boundary pixel a point.
Tape == << <<2, 0>>, <<3, 0>>, <<3, 1>>, <<3, 2>>, <<3, 3>>, <<3, 4>>,
           <<3, 5>>, <<2, 5>>, <<2, 4>>, <<2, 3>>, <<2, 2>>, <<2, 1>> >>
Box == << <<1, 0>>, <<3, 0>>, <<3, 1>>, <<1, 1>> >>
OutsideCatalogue == {Tape, Box}

\* Dashes: rectangles of area 4 (centroid (0, 50)) and 2 (centroid (1, 4)),
\* and a single point (area 0).
Dash050 == << <<0, 48>>, <<1, 48>>, <<1, 52>>, <<0, 52>> >>
DashLow == << <<0, 4>>, <<2, 4>>, <<2, 5>>, <<0, 5>> >>
DashDot == << <<1, 2>> >>
InsideCatalogue == {Dash050, DashLow, DashDot}

SeqsUpTo(S, n) == UNION {[1..k -> S] : k \in 0..n}

UniformImage(r, c, px) == [y \in 0..(r - 1) |-> [x \in 0..(c - 1) |-> px]]
CenterFrames ==
    {UniformImage(CenterRows, CenterCols, px) : px \in {BlackBGR, BlueBGR}}

(***************************************************************************)
(* find_center_points.                                                     *)
(***************************************************************************)
InitCenter ==
    /\ pc = "center_call"
    /\ LaneIdle /\ CalibIdle
    /\ outside_contours \in SeqsUpTo(OutsideCatalogue, MaxOutside) \cup {<<VLine100>>}
    /\ inside_contours \in SeqsUpTo(InsideCatalogue, MaxInside)
    /\ dot_num \in 0..MaxDotNum
    /\ frame \in CenterFrames
    /\ outside_line = None /\ inside_list = None /\ points = None
    /\ mid_centroid_y = 0 /\ sub_c = None /\ processed = <<>>
    /\ moments_calls = 0 /\ iter = 0
    /\ val = 0 /\ tolerance = 0 /\ max_val = 0 /\ tol_result = None
    /\ color_calibration = None /\ hsv = None
    /\ right_side_hsv = None /\ left_side_hsv = None
    /\ mask_outside = None /\ mask_inside = None

\* Lines 114-118: not enough contours for one interpolation.
EarlyReturn ==
    /\ pc = "center_call"
    /\ NotEnoughContours(outside_contours, inside_contours)
    /\ points' = <<>>
    /\ pc' = "center_done"
    /\ UNCHANGED <<frame, outside_contours, inside_contours, dot_num,
                   outside_line, inside_list, mid_centroid_y, sub_c,
                   processed, moments_calls, iter, tolVars, maskVars,
                   laneVars, calibVars>>

\* Lines 123-130: the reference contour as a list of its own, drawn onto the
\* frame, and a sorted list of the inside contours. max() of an empty
\* sequence raises.
SelectOutside ==
    /\ pc = "center_call"
    /\ ~NotEnoughContours(outside_contours, inside_contours)
    /\ points' = <<>>
    /\ IF Len(outside_contours) = 0
       THEN /\ pc' = "center_raised"
            /\ UNCHANGED <<frame, outside_line, inside_list>>
       ELSE /\ outside_line' = MaxByArea(outside_contours)
            /\ \E pen \in PenShapes :
                 frame' = drawContours(frame, MaxByArea(outside_contours),
                                       BlueBGR, pen)
            /\ inside_list' = SortByArea(inside_contours)
            /\ pc' = "center_loop"
    /\ UNCHANGED <<outside_contours, inside_contours, dot_num,
                   mid_centroid_y, sub_c, processed, moments_calls, iter,
                   tolVars, maskVars,
                   laneVars, calibVars>>

\* Lines 131-170: one iteration of the loop, from the pop to the append.
LoopBody ==
    /\ pc = "center_loop"
    /\ LoopContinues(iter, dot_num, inside_list)
    /\ LET popped == Pop(inside_list)
           contour == popped.contour
           mid_centroid_x == CentroidX(contour)
           mid_y == CentroidY(contour)
           sorted == SortByDistance(outside_line, mid_y)
           slice == CentroidSlice(sorted)
           slice_centroid_x == CentroidX(slice)
           center == <<(mid_centroid_x + slice_centroid_x) \div 2, mid_y>>
       IN  /\ inside_list' = popped.rest
           /\ processed' = Append(processed, contour)
           /\ mid_centroid_y' = mid_y
           /\ outside_line' = sorted
           /\ sub_c' = slice
           /\ points' = Append(points, center)
    /\ moments_calls' = moments_calls + 2
    /\ iter' = iter + 1
    /\ UNCHANGED <<pc, frame, outside_contours, inside_contours, dot_num,
                   tolVars, maskVars,
                   laneVars, calibVars>>

\* Lines 131-133 and 172: the loop ends and the points are returned.
LoopExit ==
    /\ pc = "center_loop"
    /\ ~LoopContinues(iter, dot_num, inside_list)
    /\ pc' = "center_done"
    /\ UNCHANGED <<frame, centerVars, tolVars, maskVars,
                   laneVars, calibVars>>

NextCenter == EarlyReturn \/ SelectOutside \/ LoopBody \/ LoopExit

SpecCenter == InitCenter /\ [][NextCenter]_vars

(***************************************************************************)
(* The detection core: either function, called on its inputs.              *)
(***************************************************************************)
InitCore == InitMask \/ InitCenter
NextCore == NextMask \/ NextCenter
SpecCore == InitCore /\ [][NextCore]_vars

(***************************************************************************)
(* Claims about find_center_points.                                        *)
(***************************************************************************)
InCenter == pc \in {"center_call", "center_loop", "center_done", "center_raised"}
IterationDone == pc \in {"center_loop", "center_done"} /\ iter >= 1

\* C5 as claimed: the slice of the reference contour paired with a dash is
\* made of the LEN_CENTROID_SLICE points (all points of a shorter contour)
\* nearest in |y - cy| to the dash centroid's row cy.
C5_SliceNearestInRow ==
    IterationDone =>
        /\ Len(sub_c) = Min2(LEN_CENTROID_SLICE, Len(outside_line))
        /\ \A i \in 1..Len(sub_c) :
             \A j \in (Len(sub_c) + 1)..Len(outside_line) :
                Abs(sub_c[i][2] - mid_centroid_y)
                    <= Abs(outside_line[j][2] - mid_centroid_y)

\* C6 as claimed: the vertical line x = 100, y = 0..99 and one dash of
\* positive area with centroid (0, 50) give exactly the waypoint (50, 50).
C6_SyntheticMidpoint ==
    (/\ pc = "center_done"
     /\ outside_contours = <<VLine100>>
     /\ Len(inside_contours) = 1
     /\ contourArea(inside_contours[1]) > 0
     /\ CentroidX(inside_contours[1]) = 0
     /\ CentroidY(inside_contours[1]) = 50
     /\ dot_num >= 1)
    => points = << <<50, 50>> >>

\* C7: with outside_contours or inside_contours empty the function returns
\* the empty list for every dot_num, straight from the call, without raising
\* and without computing a centroid.
C7_EmptyInputEmptyResult ==
    (InCenter /\ (Len(outside_contours) = 0 \/ Len(inside_contours) = 0)) =>
        /\ pc \in {"center_call", "center_done"}
        /\ pc = "center_done" => points = <<>> /\ moments_calls = 0

\* C7's case: no outside contour, some dashes, a positive dot_num.
C7_Witness ==
    /\ pc = "center_done"
    /\ Len(outside_contours) = 0
    /\ Len(inside_contours) > 0
    /\ dot_num > 0
    /\ points = <<>>

\* C8: with outside_contours non-empty the number of waypoints returned is
\* min(dot_num, len(inside_contours)); the count never exceeds dot_num nor
\* the number of center-line contours, and nothing is raised.
C8_WaypointCount ==
    InCenter =>
        /\ pc # "center_raised"
        /\ Len(points) <= dot_num
        /\ Len(points) <= Len(inside_contours)
        /\ (pc = "center_done" /\ Len(outside_contours) > 0) =>
               Len(points) = Min2(dot_num, Len(inside_contours))

\* C8's cases: fewer dashes than asked for, and more dashes than asked for.
C8_Witness ==
    /\ pc = "center_done"
    /\ Len(outside_contours) > 0
    /\ Len(inside_contours) = 2
    /\ dot_num > Len(inside_contours)
    /\ Len(points) = 2

\* The contours of the sequence with an area above a, and at least a.
AreaAbove(contours, a) == {j \in DOMAIN contours : contourArea(contours[j]) > a}
AreaAtLeast(contours, a) == {j \in DOMAIN contours : contourArea(contours[j]) >= a}
Count(seq, e) == Cardinality({j \in DOMAIN seq : seq[j] = e})

\* C9: the k-th waypoint belongs to the center contour of k-th largest area
\* (the waypoints are in descending order of area and are not re-sorted), its
\* y is that contour's moment centroid y, and the contours left unprocessed
\* are the ones of smallest area.
C9_LargestDashFirst ==
    pc \in {"center_loop", "center_done"} =>
        /\ Len(processed) = Len(points)
        /\ Len(outside_contours) > 0 =>
             \A c \in InsideCatalogue :
                Count(processed \o inside_list, c) = Count(inside_contours, c)
        /\ \A k \in 1..Len(points) :
             LET a == contourArea(processed[k])
             IN  /\ points[k][2] = CentroidY(processed[k])
                 /\ Cardinality(AreaAbove(inside_contours, a)) < k
                 /\ k <= Cardinality(AreaAtLeast(inside_contours, a))
                 /\ \A j \in 1..(k - 1) : contourArea(processed[j]) >= a
                 /\ \A j \in DOMAIN inside_list :
                        contourArea(inside_list[j]) <= a

\* C9's case: two dashes of different areas processed, given smallest first,
\* and one smaller contour left unprocessed.
C9_Witness ==
    /\ pc = "center_done"
    /\ Len(points) = 2
    /\ Len(inside_list) = 1
    /\ contourArea(processed[1]) > contourArea(processed[2])
    /\ contourArea(processed[2]) > contourArea(inside_list[1])
    /\ inside_contours[1] = inside_list[1]
    /\ points[1][2] = 50 /\ points[2][2] = 4

\* C10 as claimed: neither function changes the caller's frame, the
\* calibration or the two contour sequences.
C10_InputsNeverMutated ==
    [][/\ frame' = frame
       /\ color_calibration' = color_calibration
       /\ outside_contours' = outside_contours
       /\ inside_contours' = inside_contours]_vars

\* The pixels of img within distance d of point p in both coordinates.
Near(p, x, y, d) == Abs(x - p[1]) <= d /\ Abs(y - p[2]) <= d

\* C10 amended: the calibration and both contour sequences are never
\* changed and get_lane_marker_mask leaves the frame alone, but
\* find_center_points draws on the caller's frame: when neither contour set
\* is empty, the first point of the largest outside contour is painted
\* (255, 0, 0) with a pen of thickness 3 (the point's pixel, when it lies in
\* the frame, and only pixels at most 2 away from it); the early return
\* and the loop leave the frame alone.
C10_OnlyTheFrameIsDrawnOn ==
    [][/\ color_calibration' = color_calibration
       /\ outside_contours' = outside_contours
       /\ inside_contours' = inside_contours
       /\ ~(pc = "center_call" /\ pc' = "center_loop") => frame' = frame
       /\ (pc = "center_call" /\ pc' = "center_loop") =>
            LET first == MaxByArea(outside_contours)[1]
            IN  \A p \in AllPixels(frame) :
                  LET old == frame[p[2]][p[1]]
                      new == frame'[p[2]][p[1]]
                  IN  /\ new # old => new = BlueBGR /\ Near(first, p[1], p[2], 2)
                      /\ p = first => new = BlueBGR]_vars

\* C10's case: find_center_points has run its loop on a frame it changed.
C10_Witness ==
    /\ pc = "center_done"
    /\ Len(points) > 0
    /\ frame # UniformImage(CenterRows, CenterCols, BlackBGR)
    /\ frame # UniformImage(CenterRows, CenterCols, BlueBGR)
    /\ inside_list # inside_contours

\* C11: a degenerate contour is a defined fallback. After every iteration
\* the waypoint of the contour just processed is
\* ((cx + slice_cx) // 2, cy), where (cx, cy) is (0, 0) for a center contour
\* of zero area (m00 = 0) and slice_cx is 0 for a slice with m00 = 0;
\* nothing is raised and one waypoint is emitted per contour processed, so
\* a zero-area dash yields (slice_cx // 2, 0).
C11_DegenerateFallback ==
    /\ InCenter /\ Len(outside_contours) > 0 => pc # "center_raised"
    /\ IterationDone =>
         LET k == Len(processed)
             c == processed[k]
             cx == IF A00(c) = 0 THEN 0 ELSE TruncDiv(A10(c), 3 * A00(c))
             cy == IF A00(c) = 0 THEN 0 ELSE TruncDiv(A01(c), 3 * A00(c))
             slice_cx == IF A00(sub_c) = 0 THEN 0
                         ELSE TruncDiv(A10(sub_c), 3 * A00(sub_c))
         IN  /\ Len(points) = k /\ k = iter
             /\ points[k] = <<(cx + slice_cx) \div 2, cy>>
             /\ A00(c) = 0 => points[k] = <<slice_cx \div 2, 0>>
             /\ (A00(c) # 0 /\ A00(sub_c) = 0) => points[k] = <<cx \div 2, cy>>

\* C11's case: a dash of zero area processed against a slice of positive
\* area, after a dash of positive area.
C11_Witness ==
    /\ pc = "center_done"
    /\ Len(points) = 2
    /\ A00(processed[1]) # 0
    /\ A00(processed[2]) = 0
    /\ A00(sub_c) # 0
    /\ points[2][1] > 0 /\ points[2][2] = 0

\* The waypoint of find_center_points for the single center contour c and
\* the reference contour ref as it is selected, before any sort.
SingleDashPoint(ref, c) ==
    LET slice == CentroidSlice(SortByDistance(ref, CentroidY(c)))
    IN  <<(CentroidX(c) + CentroidX(slice)) \div 2, CentroidY(c)>>

\* C13: the waypoint of a center contour depends only on that contour and
\* on the outside reference contour: although the reference list is sorted
\* again in place on every iteration, the k-th waypoint equals the waypoint
\* computed for the k-th processed contour alone from the reference contour
\* in its original order.
C13_WaypointsIndependentOfOrder ==
    (pc \in {"center_loop", "center_done"} /\ Len(outside_contours) > 0) =>
        \A k \in 1..Len(points) :
            points[k] = SingleDashPoint(MaxByArea(outside_contours),
                                        processed[k])

\* C13's case: three dashes with different centroid rows processed one after
\* the other against a reference list that the sorts have reordered.
C13_Witness ==
    /\ pc = "center_done"
    /\ Len(points) = 3
    /\ points[1][2] # points[2][2] /\ points[2][2] # points[3][2]
    /\ outside_line # MaxByArea(outside_contours)
    /\ Len(outside_line) > LEN_CENTROID_SLICE

(***************************************************************************)
(* laneDetect.getLaneMask(marker_mask, head_size): a mask is a function    *)
(* mask[row][col] with values 0 and 255.                                   *)
(***************************************************************************)
\* The functions of detect.py and calibrate.main not running.
CoreIdle ==
    /\ val = 0 /\ tolerance = 0 /\ max_val = 0 /\ tol_result = None
    /\ frame = None /\ color_calibration = None /\ hsv = None
    /\ right_side_hsv = None /\ left_side_hsv = None
    /\ mask_outside = None /\ mask_inside = None
    /\ outside_contours = None /\ inside_contours = None /\ dot_num = 0
    /\ outside_line = None /\ inside_list = None /\ points = None
    /\ mid_centroid_y = 0 /\ sub_c = None /\ processed = None
    /\ moments_calls = 0 /\ iter = 0

MarkerMasks == Images(LaneRows, LaneCols, {0, 255})

InitLane ==
    /\ pc = "lane_call"
    /\ marker_mask \in MarkerMasks
    /\ result = None
    /\ row_num = 0 /\ col_num = 0
    /\ inRightBoundary = FALSE /\ inbetweenBoundaries = FALSE
    /\ writtenPixels = 0
    /\ CoreIdle /\ CalibIdle

\* Lines 115-116: the result starts as a copy of the marker mask.
CopyMask ==
    /\ pc = "lane_call"
    /\ result' = marker_mask
    /\ row_num' = -1 /\ col_num' = -1
    /\ pc' = "lane_scan"
    /\ UNCHANGED <<marker_mask, inRightBoundary, inbetweenBoundaries,
                   writtenPixels, frame, tolVars, maskVars, centerVars,
                   calibVars>>

\* Lines 121-125: the next row, its flags reset, scanned from the last column.
NextRow ==
    /\ pc = "lane_scan"
    /\ col_num = -1
    /\ row_num + 1 < Rows(result)
    /\ row_num' = row_num + 1
    /\ inRightBoundary' = FALSE /\ inbetweenBoundaries' = FALSE
    /\ writtenPixels' = 0
    /\ col_num' = Cols(result) - 1
    /\ UNCHANGED <<pc, marker_mask, result, frame, tolVars, maskVars,
                   centerVars, calibVars>>

\* Lines 126-147: one pixel of the row. Between the boundaries the pixel is
\* written; the checks of lines 130-139 (after more than 100 written pixels)
\* only read marker_mask and their break leaves the loop over i alone, so
\* they change nothing. Within the right boundary a 0 pixel starts the fill;
\* before it a 255 pixel starts the right boundary.
ScanPixel ==
    /\ pc = "lane_scan"
    /\ col_num >= 0
    /\ IF inbetweenBoundaries
       THEN /\ result' = [result EXCEPT ![row_num][col_num] = 255]
            /\ writtenPixels' = writtenPixels + 1
            /\ UNCHANGED <<inRightBoundary, inbetweenBoundaries>>
       ELSE IF inRightBoundary
       THEN /\ IF marker_mask[row_num][col_num] = 0
               THEN inRightBoundary' = FALSE /\ inbetweenBoundaries' = TRUE
               ELSE UNCHANGED <<inRightBoundary, inbetweenBoundaries>>
            /\ UNCHANGED <<result, writtenPixels>>
       ELSE /\ inRightBoundary' = (marker_mask[row_num][col_num] = 255)
            /\ UNCHANGED <<result, inbetweenBoundaries, writtenPixels>>
    /\ col_num' = col_num - 1
    /\ UNCHANGED <<pc, marker_mask, row_num, frame, tolVars, maskVars,
                   centerVars, calibVars>>

\* Line 149: every row scanned, the result is returned.
LaneReturn ==
    /\ pc = "lane_scan"
    /\ col_num = -1
    /\ row_num + 1 >= Rows(result)
    /\ pc' = "lane_done"
    /\ UNCHANGED <<frame, tolVars, maskVars, centerVars, laneVars, calibVars>>

NextLane == CopyMask \/ NextRow \/ ScanPixel \/ LaneReturn

SpecLane == InitLane /\ [][NextLane]_vars

(***************************************************************************)
(* Claims about getLaneMask.                                               *)
(***************************************************************************)
\* The columns of the marker pixels of a row, the rightmost of them, and the
\* leftmost column of the run of marker pixels that holds the rightmost.
MarkerCols(mrow) == {c \in DOMAIN mrow : mrow[c] = 255}
RightMost(mrow) == CHOOSE c \in MarkerCols(mrow) : \A d \in MarkerCols(mrow) : d <= c
RunEnd(mrow) ==
    CHOOSE e \in MarkerCols(mrow) :
        /\ \A k \in e..RightMost(mrow) : mrow[k] = 255
        /\ (e - 1) \in DOMAIN mrow => mrow[e - 1] = 0

\* C12 as claimed: a pixel of the result differs from marker_mask only where
\* it was set to 255 between the end of the rightmost run of marker pixels
\* of its row and the next marker pixel to the left; pixels to the left of
\* that left boundary and rows with no marker pixel keep their marker_mask
\* value.
C12_FillBoundedByMarkers ==
    pc = "lane_done" =>
        \A r \in DOMAIN marker_mask : \A c \in DOMAIN marker_mask[r] :
            result[r][c] # marker_mask[r][c] =>
                /\ result[r][c] = 255
                /\ MarkerCols(marker_mask[r]) # {}
                /\ c < RunEnd(marker_mask[r])
                /\ \A k \in c..RunEnd(marker_mask[r]) - 1 :
                       marker_mask[r][k] = 0

(***************************************************************************)
(* calibrate.main: the capture loop, with the mouse callback and the       *)
(* tolerance trackbar callbacks that cv2.waitKey delivers. color_settings  *)
(* is settings["color_calibration"] in memory, settings_file what the      *)
(* settings file holds of it; the warp coordinates, which no callback of   *)
(* the model changes, are left out. A failed cam.read() returns            *)
(* (False, None).                                                          *)
(***************************************************************************)
MouseEvents == {EVENT_MOUSEMOVE, EVENT_LBUTTONDOWN, EVENT_LBUTTONUP}
Keys == {ENTER_KEY, NO_KEY}
LineTitles == {"center_line", "outside_line"}
CantGetFrame == "Can't get the frame!"
RecordedCenter == "Recorded center line color!"
RecordedOutside == "Recorded outside line color!"

\* The colour calibration the settings file holds when main starts.
SettingsOnFile ==
    [outside_line : [hsv : {WHITE_TAPE_HSV}, tolerance : {<<10, 10, 10>>}],
     center_line : [hsv : {YELLOW_TAPE_HSV, DarkTapeHSV},
                    tolerance : {<<10, 10, 10>>}]]

\* Lines 103-149: the settings loaded, the windows and callbacks set up.
InitCalib ==
    /\ pc = "calib_read"
    /\ settings_file \in SettingsOnFile
    /\ color_settings = settings_file
    /\ calibrating_center = TRUE
    /\ ret = None /\ loop_i = 0
    /\ picked_color = None /\ printed = {}
    /\ mouse_events = 0 /\ clicks = 0 /\ trackbar_moves = 0
    /\ CoreIdle /\ LaneIdle

\* Lines 151-157: a frame is read and warped before ret is tested. When the
\* read fails the frame is None and warp raises at line 20 (frame.shape), so
\* lines 155-157 are reached only with ret true.
ReadFrame ==
    /\ pc = "calib_read"
    /\ \E ok \in BOOLEAN :
        /\ ret' = ok
        /\ pc' = IF ok THEN "calib_waitkey" ELSE "calib_raised"
    /\ UNCHANGED <<color_settings, calibrating_center, settings_file, loop_i,
                   picked_color, printed, mouse_events, clicks,
                   trackbar_moves, frame, tolVars, maskVars, centerVars,
                   laneVars>>

\* Lines 122-145: calibrate_color_with_mouse(event, x, y, _, __), called
\* from cv2.waitKey. The callback reads a frame of its own and converts it
\* on every event: when that read fails, cv2.cvtColor raises on None and the
\* callback is abandoned at line 126. px is the camera pixel at (x, y).
MouseEvent ==
    /\ pc = "calib_waitkey"
    /\ mouse_events < MaxMouseEvents
    /\ \E event \in MouseEvents, ok \in BOOLEAN, px \in PaletteBGR :
        /\ mouse_events' = mouse_events + 1
        /\ clicks' = IF event = EVENT_LBUTTONDOWN THEN clicks + 1 ELSE clicks
        /\ IF ok /\ event = EVENT_LBUTTONDOWN
           THEN /\ picked_color' = BGR2HSV(px)
                /\ IF calibrating_center
                   THEN /\ color_settings' =
                             [color_settings EXCEPT
                                 !.center_line.hsv = BGR2HSV(px)]
                        /\ printed' = printed \cup {RecordedCenter}
                        /\ calibrating_center' = FALSE
                   ELSE /\ color_settings' =
                             [color_settings EXCEPT
                                 !.outside_line.hsv = BGR2HSV(px)]
                        /\ printed' = printed \cup {RecordedOutside}
                        /\ calibrating_center' = TRUE
           ELSE UNCHANGED <<picked_color, color_settings, printed,
                            calibrating_center>>
    /\ UNCHANGED <<pc, settings_file, ret, loop_i, trackbar_moves, frame,
                   tolVars, maskVars, centerVars, laneVars>>

\* Lines 72-73: update_val(val, title, dim) of a tolerance trackbar, called
\* from cv2.waitKey with the trackbar's new position.
TrackbarMove ==
    /\ pc = "calib_waitkey"
    /\ trackbar_moves < MaxTrackbarMoves
    /\ \E title \in LineTitles, dim \in 1..3 :
        \E pos \in {0, TrackbarMax(dim)} :
            color_settings' =
                [color_settings EXCEPT ![title].tolerance[dim] = pos]
    /\ trackbar_moves' = trackbar_moves + 1
    /\ UNCHANGED <<pc, calibrating_center, settings_file, ret, loop_i,
                   picked_color, printed, mouse_events, clicks, frame,
                   tolVars, maskVars, centerVars, laneVars>>

\* Lines 158-171: cv2.waitKey returns; Enter leaves the loop, anything else
\* shows the frame and its masks and starts the next iteration.
WaitKey ==
    /\ pc = "calib_waitkey"
    /\ \E key \in Keys :
        IF key = ENTER_KEY
        THEN pc' = "calib_write" /\ UNCHANGED loop_i
        ELSE /\ loop_i < MaxFrames
             /\ loop_i' = loop_i + 1
             /\ pc' = "calib_read"
    /\ UNCHANGED <<color_settings, calibrating_center, settings_file, ret,
                   picked_color, printed, mouse_events, clicks,
                   trackbar_moves, frame, tolVars, maskVars, centerVars,
                   laneVars>>

\* Lines 173-175: the settings are written back to the settings file.
WriteBack ==
    /\ pc = "calib_write"
    /\ settings_file' = color_settings
    /\ pc' = "calib_exited"
    /\ UNCHANGED <<color_settings, calibrating_center, ret, loop_i,
                   picked_color, printed, mouse_events, clicks,
                   trackbar_moves, frame, tolVars, maskVars, centerVars,
                   laneVars>>

NextCalib == ReadFrame \/ MouseEvent \/ TrackbarMove \/ WaitKey \/ WriteBack

SpecCalib == InitCalib /\ [][NextCalib]_vars

(***************************************************************************)
(* Claims about calibrate.main.                                            *)
(***************************************************************************)
InCalib == pc \in {"calib_read", "calib_waitkey", "calib_write",
                   "calib_exited", "calib_raised"}

\* The capture loop has read a frame: ret is assigned.
FrameRead == InCalib /\ (pc # "calib_read" \/ loop_i > 0)

\* C14 as claimed: every way of leaving the capture loop leads to the
\* write-back of the settings: main never ends on an exception, a failed
\* read (ret false) has printed "Can't get the frame!" and left the loop
\* for the write-back, and once main has returned the settings file holds
\* the calibration as changed so far.
C14_EveryExitPersists ==
    InCalib =>
        /\ pc # "calib_raised"
        /\ (FrameRead /\ ret = FALSE) =>
               /\ CantGetFrame \in printed
               /\ pc \in {"calib_write", "calib_exited"}
        /\ pc = "calib_exited" => settings_file = color_settings

\* C15 as claimed: every mouse event leaves calibrating_center true exactly
\* when the number of left-button-down events so far is even; an
\* odd-numbered click overwrites center_line.hsv with the colour under the
\* pointer and nothing else, an even-numbered one outside_line.hsv and
\* nothing else; any other mouse event changes no colour, no tolerance and
\* not the flag.
C15_ClicksAlternate ==
    [][mouse_events' = mouse_events + 1 =>
        /\ calibrating_center' = (clicks' % 2 = 0)
        /\ clicks' = clicks =>
             /\ color_settings' = color_settings
             /\ calibrating_center' = calibrating_center
        /\ (clicks' = clicks + 1 /\ clicks' % 2 = 1) =>
             color_settings' =
                 [color_settings EXCEPT !.center_line.hsv = picked_color']
        /\ (clicks' = clicks + 1 /\ clicks' % 2 = 0) =>
             color_settings' =
                 [color_settings EXCEPT !.outside_line.hsv = picked_color']
      ]_vars

====
